---- MODULE Spec2Model ----
(***************************************************************************)
(* Model of crates/aiken-lang/src/gen_uplc/stick_break_set.rs:            *)
(* the Builtin accessor operations, the Builtins accessor sequences       *)
(* (new_from_path, new_from_list_case, pop, merge, to_air) and the        *)
(* TreeSet / TreeNode prefix-sharing trie (diff_union_builtins).          *)
(***************************************************************************)
EXTENDS Integers, Sequences, FiniteSets, TLC

VARIABLES
    tree_set,       \* TreeSet.children of the trie under test
    pre,            \* TreeSet.children before the last diff_union_builtins call
    log,            \* the diff_union_builtins calls made so far: [arg, ret]
    pc,             \* position of the caller of the Builtins functions
    subject_tipo,   \* subject_tipo argument of new_from_path / to_air
    path,           \* the structural path handed to the caller
    case_test,      \* the CaseTest handed to new_from_list_case
    split,          \* where the caller splits path into a prefix and a rest
    builtins,       \* the Builtins value `self` (its vec)
    other,          \* the Builtins value `other` (its vec)
    orig,           \* the vec of `self` before pop
    lhs, rhs, mid,  \* operands of Builtin::eq
    eq_res,         \* results of the Builtin::eq calls
    air,            \* AirTree returned by to_air
    special_funcs   \* CodeGenSpecialFuncs: names of the helper functions used

vars == <<tree_set, pre, log, pc, subject_tipo, path, case_test, split,
          builtins, other, orig, lhs, rhs, mid, eq_res, air, special_funcs>>

----------------------------------------------------------------------------
(* Bounds *)

MaxInserts == 3     \* diff_union_builtins calls per trie
MaxOps == 4         \* total number of operations inserted into one trie
MaxLen == 3         \* length of a Builtins value drawn as an input
MaxPathLen == 2     \* steps of a structural path
MaxIndex == 3       \* largest index carried by a path step or case test
MaxLeaves == 2      \* leaves of one code-generation pass
MaxLeafSteps == 1   \* steps of a leaf's path in a code-generation pass

----------------------------------------------------------------------------
(* Types.  A type is named by a subject and the path walked from it, which *)
(* is all the accessor code ever learns about a type.                      *)

BaseType(name) == [subject |-> name, path |-> <<>>]

TypeInt == BaseType("int")

TypeBytes == BaseType("bytes")

\* Type::list(Type::data())
TypeListData == BaseType("list<data>")

\* the payload slot of the variants that carry no type
NoType == BaseType("-")

Types == {TypeInt, TypeBytes}

\* decision_tree::get_tipo_by_path(subject_tipo, &rebuilt_path)
get_tipo_by_path(tipo, p) == [subject |-> tipo.subject, path |-> tipo.path \o p]

----------------------------------------------------------------------------
(* enum Builtin *)

HeadList(t) == [kind |-> "HeadList", t |-> t]

TailList == [kind |-> "TailList", t |-> NoType]

UnConstrFields == [kind |-> "UnConstrFields", t |-> NoType]

FstPair(t) == [kind |-> "FstPair", t |-> t]

SndPair(t) == [kind |-> "SndPair", t |-> t]

\* the Builtin values drawn as inputs
Builtin ==
    {HeadList(t) : t \in Types} \cup {TailList, UnConstrFields}
        \cup {FstPair(t) : t \in Types} \cup {SndPair(t) : t \in Types}

\* a bug: every kind equals itself
BuiltinEqByKind(a, b) == a.kind = b.kind

\* impl PartialEq for Builtin: eq(&self, other)
BuiltinEq(a, b) ==
    CASE a.kind = "HeadList" /\ b.kind = "HeadList" -> TRUE
      [] a.kind = "TailList" /\ b.kind = "TailList" -> TRUE
      [] a.kind = "UnConstrFields" /\ b.kind = "UnConstrFields" -> TRUE
      [] a.kind = "SndPair" /\ b.kind = "SndPair" -> TRUE
      [] OTHER -> FALSE

\* Builtin::tipo
tipo(b) ==
    CASE b.kind = "HeadList" -> b.t
      [] b.kind = "TailList" -> TypeListData
      [] b.kind = "UnConstrFields" -> TypeListData
      [] b.kind = "FstPair" -> b.t
      [] b.kind = "SndPair" -> b.t

\* impl ToString for Builtin
to_string(b) ==
    CASE b.kind = "HeadList" -> "head"
      [] b.kind = "TailList" -> "tail"
      [] b.kind = "UnConstrFields" -> "unconstrfields"
      [] b.kind = "FstPair" -> "fst"
      [] b.kind = "SndPair" -> "snd"

----------------------------------------------------------------------------
(* struct Builtins { vec } *)

\* the vecs of length n over Builtin
VecsOfLen(n) == [1..n -> Builtin]

\* the Builtins values drawn as inputs, of length at most n
Vecs(n) == UNION {VecsOfLen(k) : k \in 0..n}

\* #[derive(PartialEq)] for Builtins: Vec equality, element-wise Builtin::eq
BuiltinsEq(a, b) ==
    /\ Len(a) = Len(b)
    /\ \A i \in 1..Len(a) : BuiltinEq(a[i], b[i])

\* Builtins::new()
Builtins_new == <<>>

\* Vec::pop, the popped value dropped: an empty vec stays empty
pop(vec) == IF vec = <<>> THEN vec ELSE SubSeq(vec, 1, Len(vec) - 1)

\* Builtins::len
len(vec) == Len(vec)

\* Builtins::is_empty
is_empty(vec) == vec = <<>>

\* a bug: other goes in front
merge_front(self, o) == o \o self

\* Builtins::merge(self, other): self.vec.extend(other.vec)
merge(self, o) == self \o o

\* n pushes of TailList: for _ in 0..i { builtins.push(Builtin::TailList) }
Tails(n) == [k \in 1..n |-> TailList]

----------------------------------------------------------------------------
(* decision_tree::Path and decision_tree::CaseTest *)

\* Path::Pair(i), Path::List(i), Path::Tuple(i), Path::Constr(rc, i),
\* Path::ListTail(i)
Path(tag, rc, i) == [tag |-> tag, rc |-> rc, index |-> i]

\* the path steps drawn as inputs; Pair(i) with i > 1 is the invalid step
PathSteps ==
    {Path(tag, NoType, i) : tag \in {"Pair", "List", "Tuple", "ListTail"},
                            i \in 0..MaxIndex}
        \cup {Path("Constr", TypeInt, i) : i \in 0..MaxIndex}

\* the paths drawn as inputs, of at most n steps
Paths(n) == UNION {[1..k -> PathSteps] : k \in 0..n}

\* the steps and paths a decision tree produces: pairs have two components
ValidPathSteps == {i \in PathSteps : i.tag = "Pair" => i.index \in {0, 1}}

ValidPaths(n) == UNION {[1..k -> ValidPathSteps] : k \in 0..n}

\* CaseTest::List(i), CaseTest::ListWithTail(i) and the other case tests
CaseTest(tag, i) == [tag |-> tag, index |-> i]

\* the case tests drawn as inputs
CaseTests ==
    {CaseTest(tag, i) : tag \in {"List", "ListWithTail", "Constr", "Wild"},
                        i \in 0..MaxIndex}

\* the case tests of a list-length discriminator
ListCaseTests == {case \in CaseTests : case.tag \in {"List", "ListWithTail"}}

\* a value returned, or the abort of unreachable!()
Returned(vec) == [abort |-> FALSE, vec |-> vec]

Unreachable == [abort |-> TRUE, vec |-> <<>>]

\* Builtins::new_from_list_case(case)
new_from_list_case(case) ==
    IF case.tag \in {"List", "ListWithTail"}
    THEN Returned(Tails(case.index))
    ELSE Unreachable

\* a bug: List / Tuple push the head before the tails
path_step_head_first(acc, i, subject) ==
    LET rebuilt_path == Append(acc.rebuilt_path, i)
        t == get_tipo_by_path(subject, rebuilt_path)
        emitted ==
            CASE i.tag = "Pair" /\ i.index = 0 -> <<HeadList(t)>>
              [] i.tag = "Pair" /\ i.index = 1 -> <<SndPair(t)>>
              [] i.tag = "Pair" /\ i.index > 1 -> <<>>
              [] i.tag \in {"List", "Tuple"} -> <<HeadList(t)>> \o Tails(i.index)
              [] i.tag = "Constr" ->
                    <<UnConstrFields>> \o Tails(i.index) \o <<HeadList(t)>>
              [] i.tag = "ListTail" -> Tails(i.index)
    IN  [builtins |-> acc.builtins \o emitted,
         rebuilt_path |-> rebuilt_path,
         abort |-> i.tag = "Pair" /\ i.index > 1]

\* a bug: Pair(0) pushes FstPair
path_step_fst(acc, i, subject) ==
    LET rebuilt_path == Append(acc.rebuilt_path, i)
        t == get_tipo_by_path(subject, rebuilt_path)
        emitted ==
            CASE i.tag = "Pair" /\ i.index = 0 -> <<FstPair(t)>>
              [] i.tag = "Pair" /\ i.index = 1 -> <<SndPair(t)>>
              [] i.tag = "Pair" /\ i.index > 1 -> <<>>
              [] i.tag \in {"List", "Tuple"} -> Tails(i.index) \o <<HeadList(t)>>
              [] i.tag = "Constr" ->
                    <<UnConstrFields>> \o Tails(i.index) \o <<HeadList(t)>>
              [] i.tag = "ListTail" -> Tails(i.index)
    IN  [builtins |-> acc.builtins \o emitted,
         rebuilt_path |-> rebuilt_path,
         abort |-> i.tag = "Pair" /\ i.index > 1]

\* a bug: an out-of-range Pair index is taken for the second component
path_step_no_abort(acc, i, subject) ==
    LET rebuilt_path == Append(acc.rebuilt_path, i)
        t == get_tipo_by_path(subject, rebuilt_path)
        emitted ==
            CASE i.tag = "Pair" /\ i.index = 0 -> <<HeadList(t)>>
              [] i.tag = "Pair" /\ i.index >= 1 -> <<SndPair(t)>>
              [] i.tag \in {"List", "Tuple"} -> Tails(i.index) \o <<HeadList(t)>>
              [] i.tag = "Constr" ->
                    <<UnConstrFields>> \o Tails(i.index) \o <<HeadList(t)>>
              [] i.tag = "ListTail" -> Tails(i.index)
    IN  [builtins |-> acc.builtins \o emitted,
         rebuilt_path |-> rebuilt_path,
         abort |-> FALSE]

\* the closure folded over the path in new_from_path:
\* |(mut builtins, mut rebuilt_path), i| { rebuilt_path.push(i); match i .. }
path_step(acc, i, subject) ==
    LET rebuilt_path == Append(acc.rebuilt_path, i)
        t == get_tipo_by_path(subject, rebuilt_path)
        emitted ==
            CASE i.tag = "Pair" /\ i.index = 0 -> <<HeadList(t)>>
              [] i.tag = "Pair" /\ i.index = 1 -> <<SndPair(t)>>
              [] i.tag = "Pair" /\ i.index > 1 -> <<>>
              [] i.tag \in {"List", "Tuple"} -> Tails(i.index) \o <<HeadList(t)>>
              [] i.tag = "Constr" ->
                    <<UnConstrFields>> \o Tails(i.index) \o <<HeadList(t)>>
              [] i.tag = "ListTail" -> Tails(i.index)
    IN  [builtins |-> acc.builtins \o emitted,
         rebuilt_path |-> rebuilt_path,
         abort |-> i.tag = "Pair" /\ i.index > 1]

\* Iterator::fold over the path; the abort of a step ends the call
RECURSIVE fold_path(_, _, _)
fold_path(acc, rest, subject) ==
    IF acc.abort \/ rest = <<>> THEN acc
    ELSE fold_path(path_step(acc, Head(rest), subject), Tail(rest), subject)

\* Builtins::new_from_path(subject_tipo, path)
new_from_path(subject, p) ==
    LET r == fold_path([builtins |-> <<>>, rebuilt_path |-> <<>>, abort |-> FALSE],
                       p, subject)
    IN  IF r.abort THEN Unreachable ELSE Returned(r.builtins)

----------------------------------------------------------------------------
(* tree::AirTree and builder::CodeGenSpecialFuncs, as to_air uses them *)

\* uplc::builder::CONSTR_FIELDS_EXPOSER
CONSTR_FIELDS_EXPOSER == "CONSTR_FIELDS_EXPOSER"

\* AirTree::local_var(name, tipo)
AirTree_local_var(name, t) == [tag |-> "Var", name |-> name, tipo |-> t]

\* AirTree::builtin(func, tipo, args)
AirTree_builtin(func, t, args) ==
    [tag |-> "Builtin", func |-> [tag |-> "DefaultFunction", name |-> func],
     tipo |-> t, args |-> args]

\* AirTree::call(fun, tipo, args)
AirTree_call(fun, t, args) ==
    [tag |-> "Call", func |-> fun, tipo |-> t, args |-> args]

\* AirTree::let_assignment(name, value, then)
AirTree_let_assignment(name, value, then) ==
    [tag |-> "Let", name |-> name, value |-> value, then |-> then]

\* CodeGenSpecialFuncs::use_function_tree(name): the tree naming the helper
use_function_tree(name) == [tag |-> "Fn", name |-> name]

\* the helpers use_function_tree marks as used while vec is lowered
used_funcs(vec) ==
    IF \E i \in 1..Len(vec) : vec[i].kind = "UnConstrFields"
    THEN {CONSTR_FIELDS_EXPOSER} ELSE {}

\* Builtin::to_air_call(self, special_funcs, arg)
to_air_call(b, arg) ==
    CASE b.kind = "HeadList" -> AirTree_builtin("HeadList", b.t, <<arg>>)
      [] b.kind = "TailList" -> AirTree_builtin("TailList", TypeListData, <<arg>>)
      [] b.kind = "UnConstrFields" ->
            AirTree_call(use_function_tree(CONSTR_FIELDS_EXPOSER), TypeListData,
                         <<arg>>)
      [] b.kind = "FstPair" -> AirTree_builtin("FstPair", b.t, <<arg>>)
      [] b.kind = "SndPair" -> AirTree_builtin("SndPair", b.t, <<arg>>)

\* the forward fold of to_air: (prev_name, prev_tipo, next_name, item) per item
RECURSIVE name_builtins(_, _, _, _)
name_builtins(prev_name, prev_tipo, acc, vec) ==
    IF vec = <<>> THEN acc
    ELSE LET item == Head(vec)
             next_name == prev_name \o "_" \o to_string(item)
             next_tipo == tipo(item)
         IN  name_builtins(next_name, next_tipo,
                           Append(acc, [prev_name |-> prev_name,
                                        prev_tipo |-> prev_tipo,
                                        next_name |-> next_name,
                                        builtin |-> item]),
                           Tail(vec))

\* a bug: fold instead of rfold, the first operation innermost
RECURSIVE wrap_fold(_, _)
wrap_fold(nb, then) ==
    IF nb = <<>> THEN then
    ELSE LET e == Head(nb)
         IN  wrap_fold(Tail(nb),
                   AirTree_let_assignment(e.next_name,
                       to_air_call(e.builtin,
                                   AirTree_local_var(e.prev_name, e.prev_tipo)),
                       then))

\* the rfold of to_air: the last tuple wraps the continuation first
RECURSIVE wrap_rfold(_, _)
wrap_rfold(nb, then) ==
    IF nb = <<>> THEN then
    ELSE LET e == nb[Len(nb)]
         IN  wrap_rfold(SubSeq(nb, 1, Len(nb) - 1),
                   AirTree_let_assignment(e.next_name,
                       to_air_call(e.builtin,
                                   AirTree_local_var(e.prev_name, e.prev_tipo)),
                       then))

\* a bug: see wrap_fold
to_air_fold(vec, prev_name, subject, then) ==
    wrap_fold(name_builtins(prev_name, subject, <<>>, vec), then)

\* Builtins::to_air(self, special_funcs, prev_name, subject_tipo, then)
to_air(vec, prev_name, subject, then) ==
    wrap_rfold(name_builtins(prev_name, subject, <<>>, vec), then)

----------------------------------------------------------------------------
(* TreeSet / TreeNode *)

\* TreeNode { node, children }
TreeNode(item, children) == [node |-> item, children |-> children]

\* Iterator::rev
RECURSIVE Rev(_)
Rev(s) == IF s = <<>> THEN <<>> ELSE Append(Rev(Tail(s)), Head(s))

\* Iterator::reduce(|prev, mut current| { current.children.push(prev); current })
RECURSIVE Reduce(_, _)
Reduce(prev, rest) ==
    IF rest = <<>> THEN prev
    ELSE Reduce([Head(rest) EXCEPT !.children = Append(@, prev)], Tail(rest))

\* a bug: the chain is built without reversing, last operation at the root
new_from_builtins_norev(vec) ==
    LET nodes == [i \in 1..Len(vec) |-> TreeNode(vec[i], <<>>)]
    IN  IF nodes = <<>> THEN <<>> ELSE <<Reduce(Head(nodes), Tail(nodes))>>

\* TreeSet::new_from_builtins(builtins).children
new_from_builtins(vec) ==
    LET nodes == [i \in 1..Len(vec) |-> TreeNode(vec[i], <<>>)]
        r == Rev(nodes)
    IN  IF r = <<>> THEN <<>> ELSE <<Reduce(Head(r), Tail(r))>>

\* a bug: the search never finds a child
find_none(children, first) == 0

\* a bug: the search compares kinds only
find_by_kind(children, first) ==
    LET hits == {i \in 1..Len(children) : first.kind = children[i].node.kind}
    IN  IF hits = {} THEN 0 ELSE CHOOSE i \in hits : \A j \in hits : i <= j

\* self.children.iter_mut().find(|item| first == &item.node):
\* the index of the first child found, 0 for None
find(children, first) ==
    LET hits == {i \in 1..Len(children) : BuiltinEq(first, children[i].node)}
    IN  IF hits = {} THEN 0 ELSE CHOOSE i \in hits : \A j \in hits : i <= j

\* TreeNode::diff_union_builtins(&mut self, builtins):
\* the node afterwards and the Builtins returned
RECURSIVE TreeNode_diff_union_builtins(_, _)
TreeNode_diff_union_builtins(self, vec) ==
    IF vec # <<>> THEN
        LET first == Head(vec)
            rest == Tail(vec)
            i == find(self.children, first)
        IN  IF i # 0 THEN
                LET r == TreeNode_diff_union_builtins(self.children[i], rest)
                IN  [self |-> [self EXCEPT !.children[i] = r.self], ret |-> r.ret]
            ELSE
                [self |-> [self EXCEPT !.children = @ \o new_from_builtins(vec)],
                 ret |-> vec]
    ELSE [self |-> self, ret |-> vec]

\* a bug: the matched first operation is not dropped before recursing
TreeSet_diff_union_builtins_norest(children, vec) ==
    IF vec # <<>> THEN
        LET first == Head(vec)
            i == find(children, first)
        IN  IF i # 0 THEN
                LET r == TreeNode_diff_union_builtins(children[i], vec)
                IN  [self |-> [children EXCEPT ![i] = r.self], ret |-> r.ret]
            ELSE [self |-> children \o new_from_builtins(vec), ret |-> vec]
    ELSE [self |-> children, ret |-> vec]

\* TreeSet::diff_union_builtins(&mut self, builtins):
\* the children afterwards and the Builtins returned
TreeSet_diff_union_builtins(children, vec) ==
    IF vec # <<>> THEN
        LET first == Head(vec)
            rest == Tail(vec)
            i == find(children, first)
        IN  IF i # 0 THEN
                LET r == TreeNode_diff_union_builtins(children[i], rest)
                IN  [self |-> [children EXCEPT ![i] = r.self], ret |-> r.ret]
            ELSE [self |-> children \o new_from_builtins(vec), ret |-> vec]
    ELSE [self |-> children, ret |-> vec]

\* operations inserted so far
RECURSIVE TotalLen(_)
TotalLen(l) == IF l = <<>> THEN 0 ELSE Len(Head(l).arg) + TotalLen(Tail(l))

----------------------------------------------------------------------------
(* The trie: created empty, then fed one sequence per call *)

\* the variables the trie calls leave alone
seq_vars == <<pc, subject_tipo, path, case_test, split, builtins, other,
              orig, lhs, rhs, mid, eq_res, air, special_funcs>>

SeqIdle ==
    /\ pc = "idle"
    /\ subject_tipo = TypeInt
    /\ path = <<>>
    /\ case_test = CaseTest("Wild", 0)
    /\ split = 0
    /\ builtins = <<>>
    /\ other = <<>>
    /\ orig = <<>>
    /\ lhs = TailList
    /\ rhs = TailList
    /\ mid = TailList
    /\ eq_res = <<>>
    /\ air = <<>>
    /\ special_funcs = {}

\* TreeSet::new()
Init ==
    /\ tree_set = <<>>
    /\ pre = <<>>
    /\ log = <<>>
    /\ SeqIdle

\* tree_set.diff_union_builtins(Builtins { vec })
DiffUnionBuiltins(vec) ==
    /\ Len(log) < MaxInserts
    /\ TotalLen(log) + Len(vec) <= MaxOps
    /\ LET r == TreeSet_diff_union_builtins(tree_set, vec)
       IN  /\ tree_set' = r.self
           /\ pre' = tree_set
           /\ log' = Append(log, [arg |-> vec, ret |-> r.ret])
    /\ UNCHANGED seq_vars

Next == \E vec \in Vecs(MaxOps - TotalLen(log)) : DiffUnionBuiltins(vec)

Spec == Init /\ [][Next]_vars

----------------------------------------------------------------------------
(* A caller that translates a path in two parts and merges them *)

\* no trie in use
TrieIdle ==
    /\ tree_set = <<>>
    /\ pre = <<>>
    /\ log = <<>>

trie_vars == <<tree_set, pre, log>>

InitPath ==
    /\ TrieIdle
    /\ pc = "start"
    /\ subject_tipo \in Types
    /\ path \in Paths(MaxPathLen)
    /\ split \in 0..Len(path)
    /\ case_test = CaseTest("Wild", 0)
    /\ builtins = Builtins_new
    /\ other = Builtins_new
    /\ orig = <<>>
    /\ lhs = TailList
    /\ rhs = TailList
    /\ mid = TailList
    /\ eq_res = <<>>
    /\ air = <<>>
    /\ special_funcs = {}

\* builtins = Builtins::new_from_path(subject_tipo, path[..split])
NewFromPathPrefix ==
    /\ pc = "start"
    /\ LET r == new_from_path(subject_tipo, SubSeq(path, 1, split))
       IN  /\ pc' = IF r.abort THEN "abort" ELSE "first"
           /\ builtins' = r.vec
    /\ UNCHANGED <<trie_vars, subject_tipo, path, case_test, split, other, orig,
                   lhs, rhs, mid, eq_res, air, special_funcs>>

\* other = Builtins::new_from_path(subject_tipo, path[split..])
NewFromPathRest ==
    /\ pc = "first"
    /\ LET r == new_from_path(subject_tipo, SubSeq(path, split + 1, Len(path)))
       IN  /\ pc' = IF r.abort THEN "abort" ELSE "second"
           /\ other' = r.vec
    /\ UNCHANGED <<trie_vars, subject_tipo, path, case_test, split, builtins,
                   orig, lhs, rhs, mid, eq_res, air, special_funcs>>

\* builtins = builtins.merge(other): other is moved into the call
Merge ==
    /\ pc \in {"second", "popped"}
    /\ builtins' = merge(builtins, other)
    /\ other' = Builtins_new
    /\ pc' = "merged"
    /\ UNCHANGED <<trie_vars, subject_tipo, path, case_test, split, orig,
                   lhs, rhs, mid, eq_res, air, special_funcs>>

NextPath == NewFromPathPrefix \/ NewFromPathRest \/ Merge

SpecPath == InitPath /\ [][NextPath]_vars

----------------------------------------------------------------------------
(* A caller holding one Builtins value: pop and merge back, or lower it    *)
(* with to_air; and the two constructors of Builtins values                *)

\* prev_name handed to to_air
PrevName == "x"

\* the continuation handed to to_air
Then == [tag |-> "Then"]

InitSeq ==
    /\ TrieIdle
    /\ pc = "start"
    /\ subject_tipo \in Types
    /\ path = <<>>
    /\ split = 0
    /\ case_test = CaseTest("Wild", 0)
    /\ builtins \in Vecs(MaxLen)
    /\ other = Builtins_new
    /\ orig = <<>>
    /\ lhs = TailList
    /\ rhs = TailList
    /\ mid = TailList
    /\ eq_res = <<>>
    /\ air = <<>>
    /\ special_funcs = {}

\* other = Builtins { vec: builtins.vec.last() }; builtins.pop()
Pop ==
    /\ pc = "start"
    /\ orig' = builtins
    /\ other' = IF builtins = <<>> THEN <<>> ELSE <<builtins[Len(builtins)]>>
    /\ builtins' = pop(builtins)
    /\ pc' = "popped"
    /\ UNCHANGED <<trie_vars, subject_tipo, path, case_test, split,
                   lhs, rhs, mid, eq_res, air, special_funcs>>

\* builtins = Builtins::new_from_list_case(case)
NewFromListCase(case) ==
    /\ pc = "start"
    /\ case_test' = case
    /\ LET r == new_from_list_case(case)
       IN  /\ pc' = IF r.abort THEN "abort" ELSE "list_case"
           /\ builtins' = r.vec
    /\ UNCHANGED <<trie_vars, subject_tipo, path, split, other, orig,
                   lhs, rhs, mid, eq_res, air, special_funcs>>

\* builtins = Builtins::new_from_path(subject_tipo, p)
NewFromPath(p) ==
    /\ pc = "start"
    /\ path' = p
    /\ split' = Len(p)
    /\ LET r == new_from_path(subject_tipo, p)
       IN  /\ pc' = IF r.abort THEN "abort" ELSE "built"
           /\ builtins' = r.vec
    /\ UNCHANGED <<trie_vars, subject_tipo, case_test, other, orig, lhs, rhs,
                   mid, eq_res, air, special_funcs>>

\* air = builtins.to_air(special_funcs, prev_name, subject_tipo, then)
ToAir ==
    /\ pc = "start"
    /\ orig' = builtins
    /\ air' = to_air(builtins, PrevName, subject_tipo, Then)
    /\ special_funcs' = special_funcs \cup used_funcs(builtins)
    /\ builtins' = Builtins_new
    /\ pc' = "lowered"
    /\ UNCHANGED <<trie_vars, subject_tipo, path, case_test, split, other,
                   lhs, rhs, mid, eq_res>>

NextSeq ==
    \/ Pop
    \/ Merge
    \/ ToAir

SpecSeq == InitSeq /\ [][NextSeq]_vars

----------------------------------------------------------------------------
(* Comparisons of single operations *)

InitEq ==
    /\ TrieIdle
    /\ pc = "start"
    /\ subject_tipo = TypeInt
    /\ path = <<>>
    /\ split = 0
    /\ case_test = CaseTest("Wild", 0)
    /\ builtins = Builtins_new
    /\ other = Builtins_new
    /\ orig = <<>>
    /\ lhs \in Builtin
    /\ rhs \in Builtin
    /\ mid \in Builtin
    /\ eq_res = <<>>
    /\ air = <<>>
    /\ special_funcs = {}

\* lhs == rhs, rhs == lhs, rhs == mid, lhs == mid, lhs == lhs
Eq ==
    /\ pc = "start"
    /\ eq_res' = [lr |-> BuiltinEq(lhs, rhs),
                  rl |-> BuiltinEq(rhs, lhs),
                  rm |-> BuiltinEq(rhs, mid),
                  lm |-> BuiltinEq(lhs, mid),
                  ll |-> BuiltinEq(lhs, lhs)]
    /\ pc' = "compared"
    /\ UNCHANGED <<trie_vars, subject_tipo, path, case_test, split, builtins,
                   other, orig, lhs, rhs, mid, air, special_funcs>>

NextEq == Eq

SpecEq == InitEq /\ [][NextEq]_vars

----------------------------------------------------------------------------
(* A code-generation pass: each leaf builds its sequence with one of the   *)
(* two constructors and feeds it to the trie                               *)

InitGen ==
    /\ TrieIdle
    /\ pc = "start"
    /\ subject_tipo \in Types
    /\ path = <<>>
    /\ split = 0
    /\ case_test = CaseTest("Wild", 0)
    /\ builtins = Builtins_new
    /\ other = Builtins_new
    /\ orig = <<>>
    /\ lhs = TailList
    /\ rhs = TailList
    /\ mid = TailList
    /\ eq_res = <<>>
    /\ air = <<>>
    /\ special_funcs = {}

\* tree_set.diff_union_builtins(builtins): builtins is moved into the call
\* and the leaf's locals go out of scope
InsertBuilt ==
    /\ pc \in {"built", "list_case"}
    /\ Len(log) < MaxLeaves
    /\ TotalLen(log) + Len(builtins) <= MaxOps
    /\ LET r == TreeSet_diff_union_builtins(tree_set, builtins)
       IN  /\ tree_set' = r.self
           /\ pre' = tree_set
           /\ log' = Append(log, [arg |-> builtins, ret |-> r.ret])
    /\ builtins' = Builtins_new
    /\ pc' = "start"
    /\ path' = <<>>
    /\ split' = 0
    /\ case_test' = CaseTest("Wild", 0)
    /\ UNCHANGED <<subject_tipo, other, orig, lhs, rhs, mid, eq_res, air,
                   special_funcs>>

\* the sequence of a valid path, whatever the subject: its length is what
\* the trie's budget of operations looks at
PathLen(p) == Len(new_from_path(TypeInt, p).vec)

\* the valid paths whose sequence fits an empty trie, by sequence length
FittingPaths ==
    {<<PathLen(p), p>> : p \in {q \in ValidPaths(MaxLeafSteps) : PathLen(q) <= MaxOps}}

\* the list cases whose sequence fits an empty trie
FittingCases == {case \in ListCaseTests : case.index <= MaxOps}

NextGen ==
    \/ \E lp \in FittingPaths :
          /\ Len(log) < MaxLeaves
          /\ TotalLen(log) + lp[1] <= MaxOps
          /\ NewFromPath(lp[2])
    \/ \E case \in FittingCases :
          /\ Len(log) < MaxLeaves
          /\ TotalLen(log) + case.index <= MaxOps
          /\ NewFromListCase(case)
    \/ InsertBuilt

SpecGen == InitGen /\ [][NextGen]_vars

----------------------------------------------------------------------------
(* The two constructors called with any input, valid or not *)

NextCtor ==
    \/ \E p \in Paths(MaxPathLen) : NewFromPath(p)
    \/ \E case \in CaseTests : NewFromListCase(case)

SpecCtor == InitGen /\ [][NextCtor]_vars

----------------------------------------------------------------------------
(* Vocabulary of the trie claims *)

\* the equality rule of the specification: same kind, FstPair excepted
SameOp(a, b) == a.kind = b.kind /\ a.kind # "FstPair"

\* the operation sequences read along the root-to-node paths of a forest
RECURSIVE RootPaths(_)
RootPaths(children) ==
    UNION {{<<children[i].node>>}
              \cup {<<children[i].node>> \o p : p \in RootPaths(children[i].children)}
           : i \in 1..Len(children)}

\* the first k operations of s are a root-to-node path of the forest
PrefixPresent(s, k, children) ==
    \/ k = 0
    \/ \E p \in RootPaths(children) :
          /\ Len(p) = k
          /\ \A i \in 1..k : SameOp(s[i], p[i])

\* length of the longest prefix of s that is a root-to-node path
MatchedLen(s, children) ==
    CHOOSE k \in 0..Len(s) :
        /\ PrefixPresent(s, k, children)
        /\ \A j \in (k + 1)..Len(s) : ~PrefixPresent(s, j, children)

DropFirst(s, k) == SubSeq(s, k + 1, Len(s))

\* the forest is one chain holding exactly the operations of s, in order
RECURSIVE IsChain(_, _)
IsChain(children, s) ==
    IF s = <<>> THEN children = <<>>
    ELSE /\ Len(children) = 1
         /\ children[1].node = Head(s)
         /\ IsChain(children[1].children, Tail(s))

RECURSIVE NoEqualSiblings(_)
NoEqualSiblings(children) ==
    /\ \A i, j \in 1..Len(children) :
          i # j => ~SameOp(children[i].node, children[j].node)
    /\ \A i \in 1..Len(children) : NoEqualSiblings(children[i].children)

RECURSIVE HasBranching(_)
HasBranching(children) ==
    \/ Len(children) >= 2
    \/ \E i \in 1..Len(children) : HasBranching(children[i].children)

LastCall == log[Len(log)]

HasFst(s) == \E i \in 1..Len(s) : s[i].kind = "FstPair"

\* a is a prefix of b and b is longer
StrictExtension(a, b) == Len(a) < Len(b) /\ SubSeq(b, 1, Len(a)) = a

\* the two sequences have no common non-empty prefix
NoSharedPrefix(a, b) == a = <<>> \/ b = <<>> \/ ~SameOp(a[1], b[1])

----------------------------------------------------------------------------
(* C1: every diff_union_builtins(S) returns S minus the longest prefix of S *)
(* that was a root-to-node path of the trie before the call; that is all   *)
(* of S when its first operation matches no top-level child, and nothing   *)
(* when all of S was present.                                              *)
C1_ReturnsUnmatchedSuffix ==
    log # <<>> =>
        LET s == LastCall.arg
            k == MatchedLen(s, pre)
        IN  /\ LastCall.ret = DropFirst(s, k)
            /\ \E j \in 0..Len(s) : LastCall.ret = DropFirst(s, j)
            /\ (s # <<>> /\ (\A i \in 1..Len(pre) : ~SameOp(s[1], pre[i].node))
                    => LastCall.ret = s)
            /\ (PrefixPresent(s, Len(s), pre) => LastCall.ret = <<>>)

\* a call that matched part of its sequence in a trie with branches
C1_Witness ==
    /\ log # <<>>
    /\ HasBranching(pre)
    /\ MatchedLen(LastCall.arg, pre) > 0
    /\ MatchedLen(LastCall.arg, pre) < Len(LastCall.arg)
    /\ LastCall.ret = DropFirst(LastCall.arg, MatchedLen(LastCall.arg, pre))

(* C2: in every reachable trie no two siblings hold equal operations.      *)
C2_NoEqualSiblings == NoEqualSiblings(tree_set)

\* a trie with siblings, built by a call that shared a prefix
C2_Witness ==
    /\ HasBranching(tree_set)
    /\ \E i \in 1..Len(log) : log[i].ret # log[i].arg
    /\ NoEqualSiblings(tree_set)

(* C3: inserting the same sequence twice in a row, the second insertion    *)
(* returns an empty suffix.                                                *)
C3_SecondInsertReturnsEmpty ==
    \A i \in 1..(Len(log) - 1) :
        log[i + 1].arg = log[i].arg => log[i + 1].ret = <<>>

\* C3 for the sequences that hold no FstPair
C3_WithoutFst ==
    \A i \in 1..(Len(log) - 1) :
        (log[i + 1].arg = log[i].arg /\ ~HasFst(log[i].arg))
            => log[i + 1].ret = <<>>

(* C4: A then B = A ++ E (E not empty) into a fresh trie: the second       *)
(* insertion returns E and the trie is the single chain B.                 *)
C4_ExtensionReturnsTail ==
    (Len(log) = 2 /\ StrictExtension(log[1].arg, log[2].arg)) =>
        /\ log[2].ret = DropFirst(log[2].arg, Len(log[1].arg))
        /\ IsChain(tree_set, log[2].arg)

\* C4 for a first sequence that holds no FstPair
C4_WithoutFst ==
    (Len(log) = 2 /\ StrictExtension(log[1].arg, log[2].arg)
        /\ ~HasFst(log[1].arg)) =>
        /\ log[2].ret = DropFirst(log[2].arg, Len(log[1].arg))
        /\ IsChain(tree_set, log[2].arg)

(* C5 as stated: two sequences with no shared prefix into a fresh trie:    *)
(* both are returned whole and the trie has exactly two top-level branches.*)
C5_DisjointTwoBranches ==
    (Len(log) = 2 /\ NoSharedPrefix(log[1].arg, log[2].arg)) =>
        /\ log[1].ret = log[1].arg
        /\ log[2].ret = log[2].arg
        /\ Len(tree_set) = 2

(* C5 amended: two non-empty sequences whose first operations are not      *)
(* equal, into a fresh trie: both are returned whole and the trie is       *)
(* exactly two top-level chains, the first sequence then the second.       *)
C5_NonEmptyDisjointTwoBranches ==
    (Len(log) = 2 /\ log[1].arg # <<>> /\ log[2].arg # <<>>
        /\ ~SameOp(log[1].arg[1], log[2].arg[1])) =>
        /\ log[1].ret = log[1].arg
        /\ log[2].ret = log[2].arg
        /\ Len(tree_set) = 2
        /\ IsChain(<<tree_set[1]>>, log[1].arg)
        /\ IsChain(<<tree_set[2]>>, log[2].arg)

\* two sequences of two operations each, with unequal first operations
C5_Witness ==
    /\ Len(log) = 2
    /\ Len(log[1].arg) = 2
    /\ Len(log[2].arg) = 2
    /\ ~SameOp(log[1].arg[1], log[2].arg[1])
    /\ Len(tree_set) = 2

----------------------------------------------------------------------------
(* Vocabulary of the sequence claims *)

Kinds(vec) == [i \in 1..Len(vec) |-> vec[i].kind]

\* the kinds one path step is to emit, by the translation table
StepKinds(step) ==
    CASE step.tag = "Pair" /\ step.index = 0 -> <<"HeadList">>
      [] step.tag = "Pair" /\ step.index = 1 -> <<"SndPair">>
      [] step.tag \in {"List", "Tuple"} ->
            [k \in 1..(step.index + 1) |->
                IF k <= step.index THEN "TailList" ELSE "HeadList"]
      [] step.tag = "Constr" ->
            [k \in 1..(step.index + 2) |->
                IF k = 1 THEN "UnConstrFields"
                ELSE IF k <= step.index + 1 THEN "TailList" ELSE "HeadList"]
      [] step.tag = "ListTail" -> [k \in 1..step.index |-> "TailList"]

\* the emissions of the steps of p, concatenated in path order
RECURSIVE PathKinds(_)
PathKinds(p) ==
    IF p = <<>> THEN <<>> ELSE StepKinds(Head(p)) \o PathKinds(Tail(p))

\* the part of the path translated by the first call
PathPrefix == SubSeq(path, 1, split)

\* the k-th binding of a lowered expression, counted from the outside
RECURSIVE Peel(_, _)
Peel(tree, k) == IF k <= 1 THEN tree ELSE Peel(tree.then, k - 1)

\* x_tag1_..._tagk over the operations of vec
RECURSIVE NameAt(_, _)
NameAt(vec, k) ==
    IF k = 0 THEN PrevName
    ELSE NameAt(vec, k - 1) \o "_" \o to_string(vec[k])

\* the result type of operation k of vec, the starting type for k = 0
TypeAt(vec, k) == IF k = 0 THEN subject_tipo ELSE tipo(vec[k])

----------------------------------------------------------------------------
(* C6: Builtin equality looks at the kind alone: HeadList, TailList,       *)
(* UnConstrFields and SndPair equal every operation of their kind, unlike  *)
(* kinds never equal, FstPair equals nothing, not even itself; the         *)
(* relation is symmetric and transitive, not reflexive.                    *)
C6_EqualityByKindExceptFst ==
    pc = "compared" =>
        /\ eq_res.lr = (lhs.kind = rhs.kind /\ lhs.kind # "FstPair")
        /\ eq_res.lr = eq_res.rl
        /\ (eq_res.lr /\ eq_res.rm) => eq_res.lm
        /\ eq_res.ll = (lhs.kind # "FstPair")

\* an FstPair compared with itself, found unequal
C6_Witness ==
    /\ pc = "compared"
    /\ lhs.kind = "FstPair"
    /\ rhs = lhs
    /\ ~eq_res.lr
    /\ ~eq_res.ll

(* C7: new_from_path emits, step by step and in path order, the kinds of   *)
(* the translation table; Constr(_, 2) gives UnConstrFields, TailList,     *)
(* TailList, HeadList and ListTail(3) gives three TailList and no head.    *)
C7_PathTranslationTable ==
    pc = "first" =>
        /\ Kinds(builtins) = PathKinds(PathPrefix)
        /\ (Len(PathPrefix) = 1 /\ PathPrefix[1].tag = "Constr"
                /\ PathPrefix[1].index = 2)
            => Kinds(builtins) =
                   <<"UnConstrFields", "TailList", "TailList", "HeadList">>
        /\ (Len(PathPrefix) = 1 /\ PathPrefix[1].tag = "ListTail"
                /\ PathPrefix[1].index = 3)
            => Kinds(builtins) = <<"TailList", "TailList", "TailList">>

\* Constr(_, 2) then ListTail(3), translated in one call
C7_Witness ==
    /\ pc = "first"
    /\ split = 2
    /\ path[1].tag = "Constr" /\ path[1].index = 2
    /\ path[2].tag = "ListTail" /\ path[2].index = 3
    /\ Kinds(builtins) = <<"UnConstrFields", "TailList", "TailList", "HeadList",
                           "TailList", "TailList", "TailList">>

(* C8: for every split of a valid path, the translation of the prefix      *)
(* merged with the translation of the rest equals the translation of the   *)
(* whole path, under the equality of Builtins.                             *)
C8_MergeOfSplitEqualsWhole ==
    pc = "merged" =>
        LET whole == new_from_path(subject_tipo, path)
        IN  /\ ~whole.abort
            /\ Len(builtins) = Len(whole.vec)
            /\ BuiltinsEq(builtins, whole.vec)

\* a proper split whose merged translation carries other types than the
\* whole path's, and is equal to it all the same
C8_Witness ==
    /\ pc = "merged"
    /\ 0 < split /\ split < Len(path)
    /\ builtins # new_from_path(subject_tipo, path).vec
    /\ BuiltinsEq(builtins, new_from_path(subject_tipo, path).vec)

(* C9: a non-empty sequence, its last operation popped and merged back,    *)
(* equals the sequence it was.                                             *)
C9_PopThenMergeEqualsOriginal ==
    (pc = "merged" /\ orig # <<>>) => BuiltinsEq(builtins, orig)

\* C9 for the sequences that hold no FstPair
C9_WithoutFst ==
    (pc = "merged" /\ orig # <<>> /\ ~HasFst(orig)) => BuiltinsEq(builtins, orig)

(* C10: to_air wraps the continuation in one let per operation: the k-th   *)
(* from the outside binds x_tag1_..._tagk to operation k applied to the    *)
(* variable x_tag1_..._tag(k-1), typed with the result type of operation   *)
(* k-1 (the starting type for k = 1); under the n-th let lies the          *)
(* continuation, which is the whole result for n = 0.                      *)
C10_ToAirNestedLets ==
    pc = "lowered" =>
        /\ \A k \in 1..Len(orig) :
              LET b == Peel(air, k)
              IN  /\ b.tag = "Let"
                  /\ b.name = NameAt(orig, k)
                  /\ b.value =
                        to_air_call(orig[k],
                            AirTree_local_var(NameAt(orig, k - 1),
                                              TypeAt(orig, k - 1)))
        /\ Peel(air, Len(orig) + 1) = Then

\* unconstrfields then head, lowered from x
C10_Witness ==
    /\ pc = "lowered"
    /\ Kinds(orig) = <<"UnConstrFields", "HeadList">>
    /\ air.name = "x_unconstrfields"
    /\ air.then.name = "x_unconstrfields_head"
    /\ air.then.value.args[1].name = "x_unconstrfields"
    /\ air.then.value.args[1].tipo = TypeListData
    /\ air.then.then = Then

----------------------------------------------------------------------------
(* Vocabulary of the abort and growth claims *)

\* the path holds a Pair step with an index other than 0 and 1
InvalidPair(p) ==
    \E i \in 1..Len(p) : p[i].tag = "Pair" /\ p[i].index \notin {0, 1}

RECURSIVE NodeCount(_)
NodeCount(children) ==
    IF children = <<>> THEN 0
    ELSE 1 + NodeCount(Head(children).children) + NodeCount(Tail(children))

\* total length of the suffixes returned so far
RECURSIVE SumRet(_)
SumRet(l) == IF l = <<>> THEN 0 ELSE Len(Head(l).ret) + SumRet(Tail(l))

\* newc is oldc with nothing changed (ret empty), or with the one chain ret
\* appended as last child below the nodes matching s as far as they go
RECURSIVE IsGrowthAt(_, _, _, _)
IsGrowthAt(oldc, newc, s, ret) ==
    IF ret = <<>> THEN newc = oldc
    ELSE \/ /\ s = ret
            /\ \A i \in 1..Len(oldc) : ~SameOp(Head(s), oldc[i].node)
            /\ Len(newc) = Len(oldc) + 1
            /\ SubSeq(newc, 1, Len(oldc)) = oldc
            /\ IsChain(<<newc[Len(newc)]>>, ret)
         \/ /\ s # <<>>
            /\ Len(newc) = Len(oldc)
            /\ \E i \in 1..Len(oldc) :
                  /\ SameOp(Head(s), oldc[i].node)
                  /\ \A j \in 1..Len(oldc) : j # i => newc[j] = oldc[j]
                  /\ newc[i].node = oldc[i].node
                  /\ IsGrowthAt(oldc[i].children, newc[i].children, Tail(s), ret)

\* the kinds read along the root-to-node paths of the trie
KindPaths == {Kinds(p) : p \in RootPaths(tree_set)}

\* the kinds of the non-empty prefixes of the sequences inserted so far
PrefixKinds ==
    UNION {{Kinds(SubSeq(log[i].arg, 1, k)) : k \in 1..Len(log[i].arg)}
           : i \in 1..Len(log)}

----------------------------------------------------------------------------
(* C11: invalid inputs abort: new_from_path returns only for paths without *)
(* a Pair index outside {0, 1} and aborts for the others, whatever steps   *)
(* precede; new_from_list_case returns only for List(i) and                *)
(* ListWithTail(i), then exactly i TailList, and aborts for the others.    *)
C11_InvalidInputsAbort ==
    /\ pc = "built" => ~InvalidPair(path)
    /\ pc = "list_case" =>
          /\ case_test.tag \in {"List", "ListWithTail"}
          /\ Len(builtins) = case_test.index
          /\ \A k \in 1..Len(builtins) : builtins[k].kind = "TailList"
    /\ pc = "abort" =>
          IF path # <<>> THEN InvalidPair(path)
          ELSE case_test.tag \notin {"List", "ListWithTail"}

\* Pair(2) reached after a valid Constr step
C11_Witness ==
    /\ pc = "abort"
    /\ Len(path) = 2
    /\ path[1].tag = "Constr"
    /\ path[2].tag = "Pair" /\ path[2].index = 2

(* C12: an insertion only grows the trie: every node keeps its operation,  *)
(* parent and place; nothing is added when the returned suffix is empty,   *)
(* else one chain of the returned suffix is appended as last child of the  *)
(* deepest matched node (or at top level); the trie has as many nodes as   *)
(* the returned suffixes have operations.                                  *)
C12_GrowthOnly ==
    /\ log # <<>> => IsGrowthAt(pre, tree_set, LastCall.arg, LastCall.ret)
    /\ NodeCount(tree_set) = SumRet(log)

\* a chain of two nodes hung below an existing node
C12_Witness ==
    /\ Len(log) >= 2
    /\ Len(LastCall.arg) = 3
    /\ Len(LastCall.ret) = 2
    /\ Len(tree_set) = Len(pre)
    /\ NodeCount(tree_set) = NodeCount(pre) + 2

(* C13: the sequences built by new_from_path from valid paths and by       *)
(* new_from_list_case hold no FstPair and equal themselves; the root-to-   *)
(* node paths of a trie fed with them are exactly the non-empty prefixes   *)
(* of the sequences inserted, each read along one node only.               *)
C13_NoFstExactPrefixes ==
    /\ pc \in {"built", "list_case"} =>
          /\ ~HasFst(builtins)
          /\ BuiltinsEq(builtins, builtins)
    /\ \A i \in 1..Len(log) : ~HasFst(log[i].arg)
    /\ KindPaths = PrefixKinds
    /\ NodeCount(tree_set) = Cardinality(PrefixKinds)

\* two leaves sharing a prefix: the second adds only its own tail
C13_Witness ==
    /\ Len(log) = 2
    /\ log[1].ret # <<>>
    /\ log[2].ret # <<>>
    /\ log[2].ret # log[2].arg
    /\ KindPaths = PrefixKinds
    /\ NodeCount(tree_set) >= 3

====
